---- MODULE Spec2Model ----
(***************************************************************************)
(* Topic-based subscriptions (fhir-tbs-py).                                *)
(*                                                                         *)
(* Two lifecycles live in the repository:                                  *)
(*   - fhir_tbs: AbstractTBS._ctx_factory (reconciliation against a FHIR   *)
(*     server, aiohttp routes) and AbstractTBS._wrapper (request wrapper); *)
(*   - aidbox_python_sdk_tbs: tbs_ctx_factory (cleanup, SDK operation,     *)
(*     create, teardown) and its _wrapper.                                 *)
(*                                                                         *)
(* Strings that the code takes apart (tokens, headers, paths, URLs) are    *)
(* sequences of one-character strings.  A Python value that may be None    *)
(* is a sequence of length at most one: None is <<>>, a value v is <<v>>.  *)
(***************************************************************************)
EXTENDS Integers, Sequences, FiniteSets, TLC

VARIABLES
    args,                   \* keyword arguments given to setup_tbs
    subscriptions,          \* AbstractTBS.subscriptions
    subscription_defaults,  \* AbstractTBS.subscription_defaults
    server,                 \* Subscription resources held by the FHIR server
    nextId,                 \* next resource id the server assigns
    pc,                     \* position of the lifecycle generator
    idx,                    \* index of the definition the loop is at
    webhook_token,          \* local variable webhook_token of _ctx_factory
    existing_subscription,  \* local variable existing_subscription
    subscription_prepared,  \* local variable subscription_prepared
    created_subscriptions,  \* local list of tbs_ctx_factory (aidbox)
    routes,                 \* routes registered in the hosting application
    trace,                  \* remote calls and registrations of this run
    run,                    \* number of the current process run
    error,                  \* the exception that ended setup, if any
    requests,               \* in-flight webhook requests
    handled,                \* handler invocations
    call,                   \* a function of the package being applied, with its argument
    result                  \* what that call returned or raised

vars == <<args, subscriptions, subscription_defaults, server, nextId, pc, idx,
          webhook_token, existing_subscription, subscription_prepared,
          created_subscriptions, routes, trace, run, error, requests, handled, call, result>>

---------------------------------------------------------------------------
(* Bounds of the model.                                                    *)

MaxDefs == 2
MaxRuns == 2
MaxReqs == 2

---------------------------------------------------------------------------
(* Optional values and Python truthiness.                                  *)

None == <<>>

Some(v) == <<v>>

IsNone(o) == o = <<>>

\* `if x` / `not x` for x: str | None
Truthy(o) == o # <<>> /\ o[1] # <<>>

\* dict.get(key, default) for a key that may be absent
GetOr(o, default) == IF o = <<>> THEN default ELSE o[1]

---------------------------------------------------------------------------
(* Strings as sequences of characters.                                     *)

RECURSIVE LStrip(_, _)
LStrip(s, cs) ==
    IF s # <<>> /\ Head(s) \in cs THEN LStrip(Tail(s), cs) ELSE s

RECURSIVE RStrip(_, _)
RStrip(s, cs) ==
    IF s # <<>> /\ s[Len(s)] \in cs THEN RStrip(SubSeq(s, 1, Len(s) - 1), cs) ELSE s

\* str.strip(chars)
Strip(s, cs) == RStrip(LStrip(s, cs), cs)

Whitespace == {" "}

\* str.lower() on the letters the model's strings use
LowerChar(c) ==
    CASE c = "X" -> "x"
      [] c = "A" -> "a"
      [] c = "K" -> "k"
      [] OTHER -> c

Lower(s) == [i \in 1..Len(s) |-> LowerChar(s[i])]

StartsWith(s, p) == Len(s) >= Len(p) /\ SubSeq(s, 1, Len(p)) = p

\* position of the first c in s, 0 when there is none
RECURSIVE IndexFrom(_, _, _)
IndexFrom(s, c, i) ==
    IF i > Len(s) THEN 0
    ELSE IF s[i] = c THEN i
    ELSE IndexFrom(s, c, i + 1)

IndexOf(s, c) == IndexFrom(s, c, 1)

\* "sep".join(parts)
RECURSIVE Join(_, _)
Join(parts, sep) ==
    IF parts = <<>> THEN <<>>
    ELSE IF Len(parts) = 1 THEN parts[1]
    ELSE parts[1] \o sep \o Join(Tail(parts), sep)

XApiKeyLower == <<"x", "-", "a", "p", "i", "-", "k", "e", "y">>

\* f"X-Api-Key: {webhook_token}"
XApiKeyHeader(token) ==
    <<"X", "-", "A", "p", "i", "-", "K", "e", "y", ":", " ">> \o token

---------------------------------------------------------------------------
(* Results of calls that may raise.                                        *)

Ok(v) == [ok |-> TRUE, val |-> v]

Raise(e) == [ok |-> FALSE, err |-> e]

---------------------------------------------------------------------------
(* fhir_tbs: resolution of a definition (implementation.py 122-161).       *)

DefaultPayloadContent == "id-only"
DefaultTimeout == 20
DefaultHeartbeatPeriod == 60

EmptyDefaults == [payload_content |-> None, heartbeat_period |-> None, timeout |-> None]

\* self.subscription_defaults or {}
DefaultsOrEmpty(d) == IF d = None THEN EmptyDefaults ELSE d[1]

\* subscription_prepared: definition value, else defaults value, else constant
Prepare(subscription, defaults) ==
    [payload_content |->
        GetOr(subscription.payload_content,
              GetOr(defaults.payload_content, DefaultPayloadContent)),
     timeout |->
        GetOr(subscription.timeout, GetOr(defaults.timeout, DefaultTimeout)),
     heartbeat_period |->
        GetOr(subscription.heartbeat_period,
              GetOr(defaults.heartbeat_period, DefaultHeartbeatPeriod)),
     filter_by |-> subscription.filter_by,
     topic |-> subscription.topic]

\* f"{handler.__module__}.{handler.__name__}"
HandlerName(handler) == handler.module \o <<".">> \o handler.name

\* a variant that derives the identifier whether or not subscriptions are
\* managed, which C11 must tell apart
ResolveWebhookIdAlways(subscription, manage_subscriptions) ==
    IF Truthy(subscription.webhook_id) THEN Ok(subscription.webhook_id[1])
    ELSE Ok(HandlerName(subscription.handler))

\* the webhook identifier, or the TypeError of line 142
ResolveWebhookId(subscription, manage_subscriptions) ==
    IF Truthy(subscription.webhook_id) THEN Ok(subscription.webhook_id[1])
    ELSE IF ~manage_subscriptions THEN Raise("TypeError")
    ELSE Ok(HandlerName(subscription.handler))

\* "/".join([webhook_path_prefix.strip("/"), webhook_id])
WebhookPath(webhook_path_prefix, webhook_id) ==
    Join(<<Strip(webhook_path_prefix, {"/"}), webhook_id>>, <<"/">>)

\* f"{app_url.rstrip('/')}/{webhook_path}"
WebhookUrl(app_url, webhook_path) ==
    RStrip(app_url, {"/"}) \o <<"/">> \o webhook_path

\* f"/{webhook_path}"
RoutePath(webhook_path) == <<"/">> \o webhook_path

\* a variant without the check of get_fhir_client, which C10 must tell apart
CheckClientConfigUrlOnly(a) ==
    IF ~Truthy(a.app_url) THEN Raise("TypeError")
    ELSE Ok(TRUE)

\* lines 150-158: which of the two checks raises, if any
CheckClientConfig(a) ==
    IF ~a.get_fhir_client THEN Raise("TypeError")
    ELSE IF ~Truthy(a.app_url) THEN Raise("TypeError")
    ELSE Ok(TRUE)

---------------------------------------------------------------------------
(* fhir_tbs R4B client (r4b.py).                                           *)

\* header.split(":", 1)[1].strip(); IndexError when the header holds no ":"
HeaderValue(header) ==
    LET i == IndexOf(header, ":")
    IN  IF i = 0 THEN Raise("IndexError")
        ELSE Ok(Strip(SubSeq(header, i + 1, Len(header)), Whitespace))

\* the loop of extract_subscription_info: the last matching header wins
RECURSIVE TokenFromHeaders(_, _)
TokenFromHeaders(headers, token) ==
    IF headers = <<>> THEN Ok(token)
    ELSE IF StartsWith(Lower(Head(headers)), XApiKeyLower)
         THEN LET v == HeaderValue(Head(headers))
              IN  IF v.ok THEN TokenFromHeaders(Tail(headers), Some(v.val)) ELSE v
         ELSE TokenFromHeaders(Tail(headers), token)

\* extract_subscription_info: {"status": ..., "token": ...}
ExtractSubscriptionInfo(subscription) ==
    LET t == TokenFromHeaders(GetOr(subscription.header, <<>>), None)
    IN  IF t.ok THEN Ok([status |-> subscription.status, token |-> t.val]) ELSE t

\* param_name of one filter
ParamName(f) ==
    IF f.modifier # None THEN f.filter_parameter \o <<":">> \o f.modifier[1]
    ELSE f.filter_parameter

\* param_value of one filter
ParamValue(f) ==
    IF f.comparator # None THEN f.comparator[1] \o f.value ELSE f.value

\* params[k] = v on an insertion-ordered dict, kept as a sequence of pairs
DictSet(params, k, v) ==
    IF \E i \in 1..Len(params) : params[i].key = k
    THEN [i \in 1..Len(params) |->
            IF params[i].key = k THEN [key |-> k, value |-> v] ELSE params[i]]
    ELSE Append(params, [key |-> k, value |-> v])

\* the for loop of _build_filter_criteria
RECURSIVE FilterLoop(_, _, _)
FilterLoop(fs, resource_type, params) ==
    IF fs = <<>> THEN Ok([resource_type |-> resource_type, params |-> params])
    ELSE LET f == Head(fs)
         IN  IF Truthy(resource_type) /\ resource_type[1] # f.resource_type
             THEN Raise("NotImplementedError")
             ELSE FilterLoop(Tail(fs),
                             IF ~Truthy(resource_type) THEN Some(f.resource_type)
                             ELSE resource_type,
                             DictSet(params, ParamName(f), ParamValue(f)))

\* fhirpy's encode_params (urlencode of the dict in its order, quoting all
\* but unreserved characters, ":" and ","): k=v pairs joined by "&". The
\* strings of the model hold no character that quoting would change.
EncodeParams(params) ==
    Join([i \in 1..Len(params) |-> params[i].key \o <<"=">> \o params[i].value], <<"&">>)

\* _build_filter_criteria
BuildFilterCriteria(subscription) ==
    LET r == FilterLoop(subscription.filter_by, None, <<>>)
    IN  IF ~r.ok THEN r
        ELSE IF ~Truthy(r.val.resource_type) THEN Raise("TypeError")
        ELSE Ok(r.val.resource_type[1] \o <<"?">> \o EncodeParams(r.val.params))

\* header=[f"X-Api-Key: {webhook_token}"] if webhook_token else None
ChannelHeader(token) ==
    IF Truthy(token) THEN Some(<<XApiKeyHeader(token[1])>>) ELSE None

\* build_subscription: the resource handed to fhir_client.create
BuildSubscription(webhook_id, webhook_url, token, subscription) ==
    LET criteria == BuildFilterCriteria(subscription)
    IN  IF ~criteria.ok THEN criteria
        ELSE Ok([status |-> "requested",
                 reason |-> webhook_id,
                 endpoint |-> webhook_url,
                 header |-> ChannelHeader(token),
                 payload_content |-> subscription.payload_content,
                 max_count |-> 1,
                 heartbeat_period |-> subscription.heartbeat_period,
                 timeout |-> subscription.timeout,
                 criteria |-> subscription.topic,
                 filter_criteria |-> criteria.val])

---------------------------------------------------------------------------
(* Inputs: handlers, filters, definitions, arguments, remote resources.    *)

HandlerF == [module |-> <<"m">>, name |-> <<"f">>]
HandlerG == [module |-> <<"m">>, name |-> <<"g">>]

FilterPatient ==
    [resource_type |-> <<"P">>, filter_parameter |-> <<"s">>, value |-> <<"a">>,
     comparator |-> None, modifier |-> None]

FilterObservation ==
    [resource_type |-> <<"O">>, filter_parameter |-> <<"c">>, value |-> <<"b">>,
     comparator |-> None, modifier |-> None]

\* an explicit webhook_id, valid filters, no overrides
DefExplicit ==
    [handler |-> HandlerF, webhook_id |-> Some(<<"w">>), topic |-> <<"t">>,
     filter_by |-> <<FilterPatient>>,
     payload_content |-> None, timeout |-> None, heartbeat_period |-> None]

\* no webhook_id (derived from the handler), valid filters, a timeout override
DefDerived ==
    [handler |-> HandlerG, webhook_id |-> None, topic |-> <<"t">>,
     filter_by |-> <<FilterPatient>>,
     payload_content |-> None, timeout |-> Some(5), heartbeat_period |-> None]

\* the webhook_id of DefExplicit again, and an empty filter list
DefEmptyFilter ==
    [handler |-> HandlerG, webhook_id |-> Some(<<"w">>), topic |-> <<"t">>,
     filter_by |-> <<>>,
     payload_content |-> None, timeout |-> None, heartbeat_period |-> None]

\* filters over two resource types
DefMixedFilter ==
    [handler |-> HandlerF, webhook_id |-> Some(<<"v">>), topic |-> <<"t">>,
     filter_by |-> <<FilterPatient, FilterObservation>>,
     payload_content |-> None, timeout |-> None, heartbeat_period |-> None]

DefPool == {DefExplicit, DefDerived, DefEmptyFilter, DefMixedFilter}

SeqsUpTo(S, n) == UNION {[1..k -> S] : k \in 0..n}

AppUrl == <<"a", "/">>
PathPrefix == <<"/", "p", "/">>

TokenPool == {None, Some(<<>>), Some(<<"k">>)}

ArgsPool ==
    [webhook_path_prefix : {PathPrefix},
     webhook_token : TokenPool,
     manage_subscriptions : BOOLEAN,
     handle_delivery_errors : BOOLEAN,
     app_url : {None, Some(AppUrl)},
     get_fhir_client : BOOLEAN]

\* a Subscription some earlier run or operator left on the server
Remote(status, header, url) ==
    [status |-> status, reason |-> <<>>, endpoint |-> url, header |-> header,
     payload_content |-> DefaultPayloadContent, max_count |-> 1,
     heartbeat_period |-> DefaultHeartbeatPeriod, timeout |-> DefaultTimeout,
     criteria |-> <<"t">>, filter_criteria |-> <<>>]

RemotePool(url) ==
    {Remote("active", Some(<<XApiKeyHeader(<<"s">>)>>), url),
     Remote("error", Some(<<XApiKeyHeader(<<"s">>)>>), url),
     Remote("active", None, url)}

WithId(resource, id) == [id |-> id, resource |-> resource]

\* the webhook URL a definition gets under managed setup
UrlOf(subscription) ==
    WebhookUrl(AppUrl,
               WebhookPath(PathPrefix, ResolveWebhookId(subscription, TRUE).val))

UrlsOf(subs) == {UrlOf(subs[i]) : i \in 1..Len(subs)}

\* server contents with at most one Subscription per webhook URL
RECURSIVE ServersOver(_)
ServersOver(urls) ==
    IF urls = {} THEN {<<>>}
    ELSE LET u == CHOOSE x \in urls : TRUE
             rest == ServersOver(urls \ {u})
         IN  rest \cup
             {Append(r, WithId(x, Len(r) + 1)) : r \in rest, x \in RemotePool(u)}

---------------------------------------------------------------------------
(* The FHIR server as the client sees it.                                  *)

\* a search that never finds anything
FetchSubscriptionBlind(srv, webhook_url) == None

\* fhir_client.resources(Subscription).search(url=webhook_url).first()
FetchSubscription(srv, webhook_url) ==
    LET hits == {i \in 1..Len(srv) : srv[i].resource.endpoint = webhook_url}
    IN  IF hits = {} THEN None
        ELSE Some(srv[CHOOSE i \in hits : \A j \in hits : i <= j])

\* a variant that switches the resource off in place instead of removing it,
\* which C13 must tell apart
ServerDeleteSoft(srv, id) ==
    [i \in 1..Len(srv) |->
        IF srv[i].id = id THEN [srv[i] EXCEPT !.resource.status = "off"] ELSE srv[i]]

\* fhir_client.delete(resource)
ServerDelete(srv, id) == SelectSeq(srv, LAMBDA r : r.id # id)

\* fhir_client.create(resource)
ServerCreate(srv, id, resource) == Append(srv, WithId(resource, id))

\* the server completes the handshake of a requested Subscription
ServerActivate ==
    /\ \E i \in 1..Len(server) :
          /\ server[i].resource.status = "requested"
          /\ server' = [server EXCEPT ![i].resource.status = "active"]
    /\ UNCHANGED <<args, subscriptions, subscription_defaults, nextId, pc, idx,
                   webhook_token, existing_subscription, subscription_prepared,
                   created_subscriptions, routes, trace, run, error, requests, handled, call, result>>

---------------------------------------------------------------------------
(* fhir_tbs: AbstractTBS._ctx_factory.                                     *)

Event(op, d, url, sub, token) ==
    [op |-> op, def |-> d, url |-> url, sub |-> sub, token |-> token]

\* locals of the current iteration, functions of the definition and the arguments
CurDef == subscriptions[idx]
CurId == ResolveWebhookId(CurDef, args.manage_subscriptions).val
CurPath == WebhookPath(args.webhook_path_prefix, CurId)
CurUrl == WebhookUrl(args.app_url[1], CurPath)

\* app.add_routes([web.post(f"/{webhook_path}", self._wrapper(handler, webhook_token))])
\* `wrapper` names the closure bound to the route: AbstractTBS._wrapper ("fhir")
\* or _wrapper of aidbox_python_sdk_tbs ("aidbox")
Route(path, token, handler, d, wrapper) ==
    [path |-> path, token |-> token, handler |-> handler, def |-> d,
     wrapper |-> wrapper]

\* a registration whose closures would read the variable webhook_token of the
\* loop instead of the argument of _wrapper: every route follows the latest token
RegisterRouteLateBinding(token, log) ==
    /\ routes' = [i \in 1..(Len(routes) + 1) |->
                    IF i <= Len(routes) THEN [routes[i] EXCEPT !.token = token]
                    ELSE Route(RoutePath(CurPath), token, CurDef.handler, idx, "fhir")]
    /\ trace' = Append(log, Event("route", idx, RoutePath(CurPath), None, token))
    /\ webhook_token' = token
    /\ idx' = idx + 1
    /\ existing_subscription' = None
    /\ pc' = "loop"
    /\ UNCHANGED error

\* lines 191-198 and the step to the next definition
RegisterRoute(token, log) ==
    /\ routes' = Append(routes,
          Route(RoutePath(CurPath), token, CurDef.handler, idx, "fhir"))
    /\ trace' = Append(log, Event("route", idx, RoutePath(CurPath), None, token))
    /\ webhook_token' = token
    /\ idx' = idx + 1
    /\ existing_subscription' = None
    /\ pc' = "loop"
    /\ UNCHANGED error

\* an exception leaves the generator
Fail(log, err) ==
    /\ pc' = "failed"
    /\ error' = Some(err)
    /\ trace' = log
    /\ UNCHANGED <<routes, webhook_token, idx, existing_subscription>>

\* a variant that keeps the configured token, which C1 must tell apart
ReuseTokenNever(info, token) == token

\* line 171: the token of an active subscription replaces the local webhook_token
ReuseToken(info, token) == IF info.status = "active" THEN info.token ELSE token

\* lines 176-184, up to the await of fhir_client.create
BuildThenAwaitCreate(log) ==
    LET built == BuildSubscription(CurId, CurUrl, webhook_token, subscription_prepared[1])
    IN  IF built.ok
        THEN /\ pc' = "create"
             /\ trace' = log
             /\ existing_subscription' = None
             /\ UNCHANGED <<routes, webhook_token, idx, error>>
        ELSE Fail(log, built.err)

\* a variant in which the delivery-error flag switches the block off, which
\* C12 must tell apart
NeedsClientUnlessHandling(manage_subscriptions, handle_delivery_errors) ==
    manage_subscriptions /\ ~handle_delivery_errors

\* line 150: the block that needs the FHIR client is entered
NeedsClient(manage_subscriptions, handle_delivery_errors) ==
    manage_subscriptions \/ handle_delivery_errors

\* lines 124-162: top of the loop, up to the await of fetch_subscription, as it
\* runs for a value of the argument handle_delivery_errors
StartIterationWith(handle_delivery_errors) ==
    /\ pc = "loop"
    /\ idx <= Len(subscriptions)
    /\ subscription_prepared' = Some(Prepare(CurDef, DefaultsOrEmpty(subscription_defaults)))
    /\ IF ~ResolveWebhookId(CurDef, args.manage_subscriptions).ok
       THEN Fail(trace, ResolveWebhookId(CurDef, args.manage_subscriptions).err)
       ELSE IF NeedsClient(args.manage_subscriptions, handle_delivery_errors)
       THEN IF ~CheckClientConfig(args).ok
            THEN Fail(trace, CheckClientConfig(args).err)
            ELSE /\ pc' = "fetch"
                 /\ UNCHANGED <<routes, trace, webhook_token, idx,
                                existing_subscription, error>>
       ELSE RegisterRoute(webhook_token, trace)
    /\ UNCHANGED <<args, subscriptions, subscription_defaults, server, nextId,
                   created_subscriptions, run, requests, handled, call, result>>

StartIteration == StartIterationWith(args.handle_delivery_errors)

\* lines 162-175: fetch_subscription returns
Fetch ==
    /\ pc = "fetch"
    /\ LET found == FetchSubscription(server, CurUrl)
           log == Append(trace, Event("search", idx, CurUrl, found, None))
       IN  IF ~args.manage_subscriptions
           THEN RegisterRoute(webhook_token, log)
           ELSE IF found = None
           THEN BuildThenAwaitCreate(log)
           ELSE LET info == ExtractSubscriptionInfo(found[1].resource)
                IN  IF ~info.ok THEN Fail(log, info.err)
                    ELSE IF info.val.status = "active"
                    THEN RegisterRoute(ReuseToken(info.val, webhook_token), log)
                    ELSE /\ pc' = "delete"
                         /\ existing_subscription' = found
                         /\ trace' = log
                         /\ UNCHANGED <<routes, webhook_token, idx, error>>
    /\ UNCHANGED <<args, subscriptions, subscription_defaults, server, nextId,
                   subscription_prepared, created_subscriptions, run, requests, handled, call, result>>

\* lines 173-184: fhir_client.delete returns
Delete ==
    /\ pc = "delete"
    /\ server' = ServerDelete(server, existing_subscription[1].id)
    /\ BuildThenAwaitCreate(
          Append(trace, Event("delete", idx, CurUrl, existing_subscription, None)))
    /\ UNCHANGED <<args, subscriptions, subscription_defaults, nextId,
                   subscription_prepared, created_subscriptions, run, requests, handled, call, result>>

\* lines 177-198: fhir_client.create returns, the route is added
Create ==
    /\ pc = "create"
    /\ LET built == BuildSubscription(CurId, CurUrl, webhook_token, subscription_prepared[1]).val
       IN  /\ server' = ServerCreate(server, nextId, built)
           /\ nextId' = nextId + 1
           /\ RegisterRoute(webhook_token,
                 Append(trace, Event("create", idx, CurUrl,
                                     Some(WithId(built, nextId)), webhook_token)))
    /\ UNCHANGED <<args, subscriptions, subscription_defaults,
                   subscription_prepared, created_subscriptions, run, requests, handled, call, result>>

\* line 200: the loop is over, the generator yields
Yield ==
    /\ pc = "loop"
    /\ idx > Len(subscriptions)
    /\ pc' = "ready"
    /\ trace' = Append(trace, Event("yield", 0, <<>>, None, None))
    /\ UNCHANGED <<args, subscriptions, subscription_defaults, server, nextId, idx,
                   webhook_token, existing_subscription, subscription_prepared,
                   created_subscriptions, routes, run, error, requests, handled, call, result>>

\* the host resumes the generator at cleanup: nothing follows the yield
Teardown ==
    /\ pc = "ready"
    /\ pc' = "closed"
    /\ UNCHANGED <<args, subscriptions, subscription_defaults, server, nextId, idx,
                   webhook_token, existing_subscription, subscription_prepared,
                   created_subscriptions, routes, trace, run, error, requests, handled, call, result>>

\* the process starts again with the same arguments (setup_tbs, lines 48-59)
Restart ==
    /\ pc \in {"closed", "failed"}
    /\ run < MaxRuns
    /\ run' = run + 1
    /\ pc' = "loop"
    /\ idx' = 1
    /\ webhook_token' = args.webhook_token
    /\ existing_subscription' = None
    /\ subscription_prepared' = None
    /\ routes' = <<>>
    /\ trace' = <<>>
    /\ error' = None
    /\ UNCHANGED <<args, subscriptions, subscription_defaults, server, nextId,
                   created_subscriptions, requests, handled, call, result>>

Init ==
    /\ args \in ArgsPool
    /\ subscriptions \in SeqsUpTo(DefPool, MaxDefs)
    /\ subscription_defaults \in {None, Some([EmptyDefaults EXCEPT !.heartbeat_period = Some(9)])}
    /\ server \in ServersOver(UrlsOf(subscriptions))
    /\ nextId = Len(server) + 1
    /\ pc = "loop"
    /\ idx = 1
    /\ webhook_token = args.webhook_token
    /\ existing_subscription = None
    /\ subscription_prepared = None
    /\ created_subscriptions = <<>>
    /\ routes = <<>>
    /\ trace = <<>>
    /\ run = 1
    /\ error = None
    /\ requests = <<>>
    /\ handled = <<>>
    /\ call = None
    /\ result = None

Next ==
    \/ StartIteration
    \/ Fetch
    \/ Delete
    \/ Create
    \/ Yield
    \/ Teardown
    \/ Restart
    \/ ServerActivate

Spec == Init /\ [][Next]_vars

---------------------------------------------------------------------------
(* Reading the trace of a run.                                             *)

EventsOf(op, d) == {k \in 1..Len(trace) : trace[k].op = op /\ trace[k].def = d}

EventsOp(op) == {k \in 1..Len(trace) : trace[k].op = op}

RemoteCalls == {k \in 1..Len(trace) : trace[k].op \in {"search", "delete", "create"}}

\* the search of definition d returned a subscription with this status predicate
FoundActive(d) ==
    \E k \in EventsOf("search", d) :
        trace[k].sub # None /\ trace[k].sub[1].resource.status = "active"

FoundNonActive(d) ==
    \E k \in EventsOf("search", d) :
        trace[k].sub # None /\ trace[k].sub[1].resource.status # "active"

\* token tok is what the channel header of the resource carries
Embeds(resource, tok) ==
    \/ resource.header = None /\ tok = None
    \/ tok # None /\ resource.header = Some(<<XApiKeyHeader(tok[1])>>)

Defs == 1..Len(subscriptions)

---------------------------------------------------------------------------
(* C1: under managed setup, a definition whose search returned an `active` *)
(* subscription causes no create and no delete, in the first run and in    *)
(* every later one, and every route of that definition is bound to the     *)
(* token embedded in the subscription that was found.                      *)

C1_Idempotent ==
    args.manage_subscriptions =>
        \A d \in Defs :
            \A k \in EventsOf("search", d) :
                (trace[k].sub # None /\ trace[k].sub[1].resource.status = "active") =>
                    /\ EventsOf("create", d) = {}
                    /\ EventsOf("delete", d) = {}
                    /\ \A r \in 1..Len(routes) :
                          routes[r].def = d =>
                              Embeds(trace[k].sub[1].resource, routes[r].token)

\* a second run over two definitions, both found active, nothing created or
\* deleted, a route bound to a token that is not the configured one
C1_Witness ==
    /\ args.manage_subscriptions
    /\ run = 2
    /\ pc = "ready"
    /\ Len(subscriptions) = 2
    /\ \A d \in Defs : FoundActive(d)
    /\ EventsOp("create") = {} /\ EventsOp("delete") = {}
    /\ Len(routes) = 2
    /\ \E r \in 1..Len(routes) : routes[r].token # args.webhook_token

---------------------------------------------------------------------------
(* C2: under managed setup, a definition whose search returned a           *)
(* subscription that is not `active` gets, by the time setup is through    *)
(* with it, exactly one delete of that subscription and exactly one create *)
(* for its URL, the delete before the create.                              *)

C2_ReplaceNonActive ==
    args.manage_subscriptions =>
        \A d \in Defs :
            (FoundNonActive(d) /\ (idx > d \/ pc = "failed")) =>
                /\ Cardinality(EventsOf("delete", d)) = 1
                /\ Cardinality(EventsOf("create", d)) = 1
                /\ \A i \in EventsOf("delete", d), j \in EventsOf("create", d) :
                      /\ i < j
                      /\ trace[j].url = trace[i].url

---------------------------------------------------------------------------
(* C5: once the lifecycle has ended, every subscription created during     *)
(* setup has been deleted after the yield, each once and in the order of   *)
(* creation, and none of them is left on the server.                       *)

CreatedIds == [k \in 1..Len(SelectSeq(trace, LAMBDA e : e.op = "create")) |->
                 SelectSeq(trace, LAMBDA e : e.op = "create")[k].sub[1].id]

YieldAt == CHOOSE k \in EventsOp("yield") : TRUE

TeardownDeletes ==
    LET after == SubSeq(trace, YieldAt + 1, Len(trace))
        dels == SelectSeq(after, LAMBDA e : e.op = "delete")
    IN  [k \in 1..Len(dels) |-> dels[k].sub[1].id]

C5_TeardownDeletesCreated ==
    pc = "closed" =>
        /\ TeardownDeletes = CreatedIds
        /\ \A k \in 1..Len(CreatedIds) :
              \A i \in 1..Len(server) : server[i].id # CreatedIds[k]

---------------------------------------------------------------------------
(* C10: management or delivery-error handling requested without a FHIR     *)
(* client accessor or without an application URL.                          *)

MisconfiguredClient ==
    /\ args.manage_subscriptions \/ args.handle_delivery_errors
    /\ ~args.get_fhir_client \/ ~Truthy(args.app_url)

\* the claim as written: setup never gets through, and issues no remote call
\* and registers no route
C10_AlwaysFails ==
    MisconfiguredClient =>
        /\ pc \in {"loop", "failed"}
        /\ pc = "loop" => idx = 1
        /\ pc = "failed" => error = Some("TypeError")
        /\ trace = <<>>
        /\ routes = <<>>

\* amended: the same, for a setup with at least one declared definition
C10_FailsWithDefinitions ==
    (MisconfiguredClient /\ Len(subscriptions) >= 1) =>
        /\ pc \in {"loop", "failed"}
        /\ pc = "loop" => idx = 1
        /\ pc = "failed" => error = Some("TypeError")
        /\ trace = <<>>
        /\ routes = <<>>

\* setup has failed on a missing accessor while the server holds a subscription
\* for the definition's URL, which no call has touched
C10_Witness ==
    /\ MisconfiguredClient
    /\ args.manage_subscriptions
    /\ ~args.get_fhir_client
    /\ args.app_url # None
    /\ Len(subscriptions) = 2
    /\ pc = "failed"
    /\ error = Some("TypeError")
    /\ Len(server) >= 1
    /\ trace = <<>> /\ routes = <<>>

---------------------------------------------------------------------------
(* fhir_tbs: reference normalisation (utils.py) and bundle decoding        *)
(* (r4b.py 78-121, 206-220).                                               *)

\* str.split(sep)
RECURSIVE SplitFrom(_, _, _)
SplitFrom(s, sep, cur) ==
    IF s = <<>> THEN <<cur>>
    ELSE IF Head(s) = sep THEN <<cur>> \o SplitFrom(Tail(s), sep, <<>>)
    ELSE SplitFrom(Tail(s), sep, Append(cur, Head(s)))

Split(s, sep) == SplitFrom(s, sep, <<>>)

\* the resourceType of a SubscriptionStatus resource, abbreviated
SubscriptionStatusType == <<"S", "S">>

MaxOf(a, b) == IF a >= b THEN a ELSE b

\* parts[-n:-m] (m = 0 for parts[-n:]) with Python's clamping of the bounds
SliceFromEnd(parts, n, m) ==
    SubSeq(parts, MaxOf(1, Len(parts) - n + 1), Len(parts) - m)

History == <<"_", "h", "i", "s", "t", "o", "r", "y">>

\* a normalisation that keeps the last two segments whatever they are
ExtractRelativeReferenceLastTwo(reference) ==
    IF IndexOf(reference, "/") = 0 THEN reference
    ELSE Join(SliceFromEnd(Split(reference, "/"), 2, 0), <<"/">>)

\* extract_relative_reference
ExtractRelativeReference(reference) ==
    IF IndexOf(reference, "/") = 0 THEN reference
    ELSE LET parts == Split(reference, "/")
         IN  IF parts[Len(parts) - 1] = History
             THEN Join(SliceFromEnd(parts, 4, 2), <<"/">>)
             ELSE Join(SliceFromEnd(parts, 2, 0), <<"/">>)

\* what _extract_relative_references_recursive does to one Reference
NormalizeRef(ref) ==
    IF Truthy(ref) THEN Some(ExtractRelativeReference(ref[1])) ELSE ref

NormalizeEvent(e) ==
    [e EXCEPT !.focus = NormalizeRef(e.focus),
              !.additionalContext =
                  [i \in 1..Len(e.additionalContext) |->
                      NormalizeRef(e.additionalContext[i])]]

NormalizeResource(r) ==
    IF r.resourceType = SubscriptionStatusType
    THEN [r EXCEPT !.notificationEvent =
             [i \in 1..Len(r.notificationEvent) |-> NormalizeEvent(r.notificationEvent[i])]]
    ELSE [r EXCEPT !.subject = NormalizeRef(r.subject)]

\* _extract_relative_references_recursive over the whole bundle
NormalizeBundle(bundle) ==
    [entry |-> [i \in 1..Len(bundle.entry) |->
        IF bundle.entry[i].resource = None THEN bundle.entry[i]
        ELSE [bundle.entry[i] EXCEPT
                 !.resource = Some(NormalizeResource(bundle.entry[i].resource[1]))]]]

\* f"{entry.resource.resourceType}/{entry.resource.id}"
ResourceKey(r) == r.resourceType \o <<"/">> \o r.id

\* included_resources_by_reference: the last entry with a key wins
RECURSIVE IncludedByReference(_, _)
IncludedByReference(entries, dict) ==
    IF entries = <<>> THEN dict
    ELSE IF Head(entries).resource = None
         THEN IncludedByReference(Tail(entries), dict)
         ELSE IncludedByReference(Tail(entries),
                 DictSet(dict, ResourceKey(Head(entries).resource[1]),
                         Head(entries).resource[1]))

DictHas(dict, k) == \E i \in 1..Len(dict) : dict[i].key = k

DictGet(dict, k) == dict[CHOOSE i \in 1..Len(dict) : dict[i].key = k].value

\* [ctx.reference for ctx in (event.additionalContext or []) if ctx.reference]
ContextReferences(e) ==
    LET kept == SelectSeq(e.additionalContext, LAMBDA c : Truthy(c))
    IN  [i \in 1..Len(kept) |-> kept[i][1]]

DigitValue(c) ==
    CASE c = "0" -> 0 [] c = "1" -> 1 [] c = "2" -> 2 [] c = "3" -> 3 [] c = "4" -> 4
      [] c = "5" -> 5 [] c = "6" -> 6 [] c = "7" -> 7 [] c = "8" -> 8 [] c = "9" -> 9

Digits == {"0", "1", "2", "3", "4", "5", "6", "7", "8", "9"}

RECURSIVE DecimalValue(_, _)
DecimalValue(s, acc) ==
    IF s = <<>> THEN acc ELSE DecimalValue(Tail(s), 10 * acc + DigitValue(Head(s)))

\* int(s) of a str: surrounding whitespace and one sign are allowed, then
\* decimal digits (no string here has the underscores int() also takes)
IntOf(s) ==
    LET t == Strip(s, Whitespace)
        signed == t # <<>> /\ Head(t) \in {"+", "-"}
        body == IF signed THEN Tail(t) ELSE t
    IN  IF body = <<>> \/ \E i \in 1..Len(body) : body[i] \notin Digits
        THEN Raise("ValueError")
        ELSE Ok(IF signed /\ Head(t) = "-" THEN 0 - DecimalValue(body, 0)
                ELSE DecimalValue(body, 0))

\* the references that have an inlined resource, context first, then focus
MatchedReferences(e, dict) ==
    SelectSeq(Append(ContextReferences(e), e.focus[1]), LAMBDA ref : DictHas(dict, ref))

\* the SubscriptionEvent of one focus-bearing notification event, or the
\* ValueError of int(event.eventNumber)
SubscriptionEvent(e, dict) ==
    LET refs == MatchedReferences(e, dict)
        number == IntOf(e.eventNumber)
    IN  IF ~number.ok THEN number
        ELSE Ok([reference |-> e.focus[1],
                 included_resources |-> [i \in 1..Len(refs) |-> DictGet(dict, refs[i])],
                 timestamp |-> e.timestamp,
                 event_number |-> number.val])

\* a loop that stops at the first event without a focus reference
RECURSIVE EventsLoopUntilNoFocus(_, _, _)
EventsLoopUntilNoFocus(events, dict, subscription_events) ==
    IF events = <<>> \/ ~Truthy(Head(events).focus) THEN Ok(subscription_events)
    ELSE LET event == SubscriptionEvent(Head(events), dict)
         IN  IF ~event.ok THEN event
             ELSE EventsLoopUntilNoFocus(Tail(events), dict,
                                         Append(subscription_events, event.val))

\* the loop over notificationEvent: events without a focus reference are skipped
RECURSIVE EventsLoop(_, _, _)
EventsLoop(events, dict, subscription_events) ==
    IF events = <<>> THEN Ok(subscription_events)
    ELSE IF ~Truthy(Head(events).focus)
         THEN EventsLoop(Tail(events), dict, subscription_events)
    ELSE LET event == SubscriptionEvent(Head(events), dict)
         IN  IF ~event.ok THEN event
             ELSE EventsLoop(Tail(events), dict, Append(subscription_events, event.val))

\* a decoder that takes a bundle without a leading status resource for a
\* bundle without events
ExtractSubscriptionEventsLenient(bundle_data) ==
    LET bundle == NormalizeBundle(bundle_data)
    IN  IF \/ bundle.entry = <<>>
           \/ bundle.entry[1].resource = None
           \/ bundle.entry[1].resource[1].resourceType # SubscriptionStatusType
        THEN Ok(<<>>)
        ELSE EventsLoop(bundle.entry[1].resource[1].notificationEvent,
                        IncludedByReference(Tail(bundle.entry), <<>>), <<>>)

\* extract_subscription_events_from_bundle
ExtractSubscriptionEventsFromBundle(bundle_data) ==
    LET bundle == NormalizeBundle(bundle_data)
    IN  IF bundle.entry = <<>> THEN Raise("AssertionError")
        ELSE IF bundle.entry[1].resource = None THEN Raise("AssertionError")
        ELSE IF bundle.entry[1].resource[1].resourceType # SubscriptionStatusType
             THEN Raise("AssertionError")
        ELSE EventsLoop(bundle.entry[1].resource[1].notificationEvent,
                        IncludedByReference(Tail(bundle.entry), <<>>), <<>>)

---------------------------------------------------------------------------
(* Notification bundles the server may deliver.                            *)

NotificationEvent(focus, context, number) ==
    [focus |-> focus, additionalContext |-> context,
     timestamp |-> Some(<<"T", number>>), eventNumber |-> <<number>>]

StatusResource(events) ==
    [resourceType |-> SubscriptionStatusType, id |-> <<"0">>,
     notificationEvent |-> events]

Patient(id) == [resourceType |-> <<"P">>, id |-> id, subject |-> None]

Entry(resource) == [resource |-> Some(resource), request |-> None]

\* an entry that carries only the request made for a resource
RequestEntry(url) == [resource |-> None, request |-> Some([url |-> url])]

RefPatient1 == <<"P", "/", "1">>
RefPatient2 == <<"P", "/", "2">>
UrlPatient1 == <<"h", "/", "P", "/", "1">>

\* no entry at all
BundleEmpty == [entry |-> <<>>]

\* a heartbeat: a status resource without notification events
BundleHeartbeat == [entry |-> <<Entry(StatusResource(<<>>))>>]

\* one event with a focus given as a URL, the resource inlined
BundleOne ==
    [entry |-> <<Entry(StatusResource(<<NotificationEvent(Some(UrlPatient1), <<>>, "1")>>)),
                 Entry(Patient(<<"1">>))>>]

\* two events, both with a focus
BundleTwo ==
    [entry |-> <<Entry(StatusResource(<<NotificationEvent(Some(RefPatient1), <<>>, "1"),
                                        NotificationEvent(Some(RefPatient2), <<>>, "2")>>))>>]

\* two events, the first without a focus
BundleTwoOneFocus ==
    [entry |-> <<Entry(StatusResource(<<NotificationEvent(None, <<>>, "1"),
                                        NotificationEvent(Some(RefPatient2), <<>>, "2")>>))>>]

BundlePool == {BundleEmpty, BundleHeartbeat, BundleOne, BundleTwo, BundleTwoOneFocus}

HeaderPool == {None, Some(<<>>), Some(<<"k">>)}

---------------------------------------------------------------------------
(* fhir_tbs: AbstractTBS._wrapper.wrapped_handler, one instance per        *)
(* request.                                                                *)

\* the route the hosting layer resolves a path to: the first one registered
RouteFor(path) ==
    routes[CHOOSE i \in 1..Len(routes) :
              routes[i].path = path /\ \A j \in 1..(i - 1) : routes[j].path # path]

RoutePaths == {routes[i].path : i \in 1..Len(routes)}

\* a variant that lets a request without the header through, which C3 must
\* tell apart
UnauthorizedIfPresent(token, header) == token # None /\ header # None /\ header # token

\* line 208: the request is refused
Unauthorized(token, header) == token # None /\ header # token

\* a variant without the assertion, which C8 must tell apart
SingleEventUnchecked(events) == TRUE

\* line 214
SingleEvent(events) == Len(events) <= 1

Request(path, header, body, at, events, ev, response) ==
    [path |-> path, header |-> header, body |-> body, pc |-> at,
     events |-> events, ev |-> ev, response |-> response]

\* a variant that hands the handler no included resources, which C9 must tell
\* apart
InvocationNoIncluded(r, handler, event) ==
    [req |-> r, handler |-> handler, reference |-> event.reference,
     included_resources |-> <<>>,
     timestamp |-> event.timestamp, state |-> "running"]

\* handler(request.app, event.reference, event.included_resources, event.timestamp)
Invocation(r, handler, event) ==
    [req |-> r, handler |-> handler, reference |-> event.reference,
     included_resources |-> event.included_resources,
     timestamp |-> event.timestamp, state |-> "running"]

ServingUnchanged ==
    UNCHANGED <<args, subscriptions, subscription_defaults, server, nextId, pc, idx,
                webhook_token, existing_subscription, subscription_prepared,
                created_subscriptions, routes, trace, run, error, call, result>>

\* lines 207-211: the request arrives; 401, or the await of request.json()
Arrive ==
    /\ pc = "ready"
    /\ Len(requests) < MaxReqs
    /\ \E path \in RoutePaths, header \in HeaderPool, body \in BundlePool :
          /\ RouteFor(path).wrapper = "fhir"
          /\ requests' = Append(requests,
              IF Unauthorized(RouteFor(path).token, header)
              THEN Request(path, header, body, "rejected", <<>>, 0, Some(401))
              ELSE Request(path, header, body, "json", <<>>, 0, None))
    /\ UNCHANGED handled
    /\ ServingUnchanged

\* lines 211-221: the body is read and decoded; the first handler call, or
\* the response when there is no event
Decode ==
    /\ \E r \in 1..Len(requests) :
          /\ requests[r].pc = "json"
          /\ LET decoded == ExtractSubscriptionEventsFromBundle(requests[r].body)
             IN  IF ~decoded.ok \/ ~SingleEvent(decoded.val)
                 THEN /\ requests' = [requests EXCEPT ![r].pc = "failed",
                                                      ![r].response = Some(500)]
                      /\ UNCHANGED handled
                 ELSE IF decoded.val = <<>>
                 THEN /\ requests' = [requests EXCEPT ![r].pc = "responded",
                                                      ![r].response = Some(200)]
                      /\ UNCHANGED handled
                 ELSE /\ requests' = [requests EXCEPT ![r].pc = "handler",
                                                      ![r].events = decoded.val,
                                                      ![r].ev = 1]
                      /\ handled' = Append(handled,
                            Invocation(r, RouteFor(requests[r].path).handler, decoded.val[1]))
    /\ ServingUnchanged

\* the invocation of request r that is running
Running(r) == CHOOSE i \in 1..Len(handled) : handled[i].req = r /\ handled[i].state = "running"

\* lines 216-221: the handler returns; the next event, or the response
HandlerReturn ==
    /\ \E r \in 1..Len(requests) :
          /\ requests[r].pc = "handler"
          /\ IF requests[r].ev < Len(requests[r].events)
             THEN /\ requests' = [requests EXCEPT ![r].ev = @ + 1]
                  /\ handled' = Append([handled EXCEPT ![Running(r)].state = "done"],
                        Invocation(r, RouteFor(requests[r].path).handler,
                                   requests[r].events[requests[r].ev + 1]))
             ELSE /\ requests' = [requests EXCEPT ![r].pc = "responded",
                                                  ![r].response = Some(200)]
                  /\ handled' = [handled EXCEPT ![Running(r)].state = "done"]
    /\ ServingUnchanged

\* a wrapper that would catch the exception of the handler and answer as if
\* the handler had returned
HandlerRaiseCaught ==
    /\ \E r \in 1..Len(requests) :
          /\ requests[r].pc = "handler"
          /\ requests' = [requests EXCEPT ![r].pc = "responded", ![r].response = Some(200)]
          /\ handled' = [handled EXCEPT ![Running(r)].state = "raised"]
    /\ ServingUnchanged

\* the handler raises: the exception leaves wrapped_handler
HandlerRaise ==
    /\ \E r \in 1..Len(requests) :
          /\ requests[r].pc = "handler"
          /\ requests' = [requests EXCEPT ![r].pc = "failed", ![r].response = Some(500)]
          /\ handled' = [handled EXCEPT ![Running(r)].state = "raised"]
    /\ ServingUnchanged

\* setup has yielded: the route of the one definition, bound to the configured
\* token
InitServing ==
    /\ args \in {a \in ArgsPool : /\ a.manage_subscriptions
                                  /\ ~a.handle_delivery_errors
                                  /\ a.get_fhir_client
                                  /\ a.app_url # None}
    /\ subscriptions \in {<<DefExplicit>>, <<DefDerived>>}
    /\ subscription_defaults = None
    /\ server = <<>>
    /\ nextId = 1
    /\ pc = "ready"
    /\ idx = 2
    /\ webhook_token = args.webhook_token
    /\ existing_subscription = None
    /\ subscription_prepared = None
    /\ created_subscriptions = <<>>
    /\ routes = <<Route(RoutePath(WebhookPath(args.webhook_path_prefix,
                            ResolveWebhookId(subscriptions[1], TRUE).val)),
                        args.webhook_token, subscriptions[1].handler, 1, "fhir")>>
    /\ trace = <<>>
    /\ run = 1
    /\ error = None
    /\ requests = <<>>
    /\ handled = <<>>
    /\ call = None
    /\ result = None

NextServing ==
    \/ Arrive
    \/ Decode
    \/ HandlerReturn
    \/ HandlerRaise

---------------------------------------------------------------------------
(* Reading requests.                                                       *)

Reqs == 1..Len(requests)

\* the request is served by AbstractTBS._wrapper
IsFhir(r) == RouteFor(requests[r].path).wrapper = "fhir"

TokenOf(r) == RouteFor(requests[r].path).token

InvocationsOf(r) == {i \in 1..Len(handled) : handled[i].req = r}

\* the request is past the decoding of its body
PastDecode(r) == IsFhir(r) /\ requests[r].pc \in {"handler", "responded", "failed"}

\* the notification events the status resource of a body lists
ListedEvents(body) ==
    IF body.entry # <<>> /\ body.entry[1].resource # None
       /\ body.entry[1].resource[1].resourceType = SubscriptionStatusType
    THEN body.entry[1].resource[1].notificationEvent
    ELSE <<>>

FocusBearing(body) == SelectSeq(ListedEvents(body), LAMBDA e : Truthy(e.focus))

---------------------------------------------------------------------------
(* C3: a request whose X-Api-Key header is missing or differs from the     *)
(* non-empty token of its route is answered 401; its body is never read    *)
(* or decoded and the handler is never invoked for it.                     *)

---------------------------------------------------------------------------
(* C4: the header is required only when a token was configured: a request  *)
(* is let through whenever the token of its route is absent or empty, and  *)
(* whenever its header equals the token; it is rejected only when the      *)
(* token is non-empty and the header differs.                              *)

C4_HeaderRequiredIffToken ==
    \A r \in Reqs :
        /\ (~Truthy(TokenOf(r)) \/ requests[r].header = TokenOf(r)) =>
              requests[r].pc # "rejected"
        /\ requests[r].pc = "rejected" =>
              (Truthy(TokenOf(r)) /\ requests[r].header # TokenOf(r))

---------------------------------------------------------------------------
(* C8: the single-event assertion.                                         *)

---------------------------------------------------------------------------
(* C9: for an authenticated request whose body decodes to no event or to   *)
(* one, the handler of its route is invoked once per decoded event, with   *)
(* the reference, included resources and timestamp of that event, and the  *)
(* success response is there only after the invocation has completed.      *)

C9_OncePerEvent ==
    \A r \in Reqs :
        LET decoded == ExtractSubscriptionEventsFromBundle(requests[r].body)
        IN  (PastDecode(r) /\ decoded.ok /\ Len(decoded.val) <= 1) =>
                /\ Cardinality(InvocationsOf(r)) = Len(decoded.val)
                /\ \A i \in InvocationsOf(r) :
                      /\ handled[i].handler = RouteFor(requests[r].path).handler
                      /\ handled[i].reference = decoded.val[1].reference
                      /\ handled[i].included_resources = decoded.val[1].included_resources
                      /\ handled[i].timestamp = decoded.val[1].timestamp
                /\ requests[r].response = Some(200) =>
                      /\ requests[r].pc = "responded"
                      /\ \A i \in InvocationsOf(r) : handled[i].state = "done"
                /\ requests[r].pc = "handler" =>
                      /\ requests[r].response = None
                      /\ \A i \in InvocationsOf(r) : handled[i].state = "running"

\* a request with one event has been answered after its one invocation, which
\* got the normalised reference, the inlined resource and the timestamp, while
\* a heartbeat has been answered without any invocation
C9_Witness ==
    /\ Len(requests) = 2
    /\ requests[1].body = BundleOne /\ requests[1].response = Some(200)
    /\ requests[2].body = BundleHeartbeat /\ requests[2].response = Some(200)
    /\ Len(handled) = 1
    /\ handled[1].req = 1
    /\ handled[1].state = "done"
    /\ handled[1].reference = RefPatient1
    /\ handled[1].included_resources = <<Patient(<<"1">>)>>
    /\ handled[1].timestamp = Some(<<"T", "1">>)

---------------------------------------------------------------------------
(* C7: the prepared definition takes each of payload content, timeout and  *)
(* heartbeat period from the definition, else from subscription_defaults,  *)
(* else from the built-in constants `id-only`, 60 (timeout) and 20         *)
(* (heartbeat period).                                                     *)

\* the definition subscription_prepared was computed from
PreparedIdx == IF pc \in {"loop", "ready", "closed"} THEN idx - 1 ELSE idx

C7_Precedence ==
    subscription_prepared # None =>
        LET d == subscriptions[PreparedIdx]
            df == DefaultsOrEmpty(subscription_defaults)
            p == subscription_prepared[1]
        IN  /\ p.payload_content =
                  IF d.payload_content # None THEN d.payload_content[1]
                  ELSE IF df.payload_content # None THEN df.payload_content[1]
                  ELSE "id-only"
            /\ p.timeout =
                  IF d.timeout # None THEN d.timeout[1]
                  ELSE IF df.timeout # None THEN df.timeout[1]
                  ELSE 60
            /\ p.heartbeat_period =
                  IF d.heartbeat_period # None THEN d.heartbeat_period[1]
                  ELSE IF df.heartbeat_period # None THEN df.heartbeat_period[1]
                  ELSE 20

---------------------------------------------------------------------------
(* aidbox_python_sdk_tbs: builders (r4b.py, r5.py).                        *)

AidboxHeartbeatPeriod == 20
AidboxTimeout == 60

\* r4b_build_subscription; the definitions of this package spell their keys
\* filterBy, resourceType and filterParameter, and _build_filter_criteria
\* (r4b.py 81-104) is the code of fhir_tbs over those keys
R4BBuildSubscription(name, webhook_url, token, subscription) ==
    LET criteria == BuildFilterCriteria(subscription)
    IN  IF ~criteria.ok THEN criteria
        ELSE Ok([status |-> "requested",
                 reason |-> name,
                 endpoint |-> webhook_url,
                 header |-> Some(<<XApiKeyHeader(token)>>),
                 payload_content |-> "id-only",
                 max_count |-> 1,
                 heartbeat_period |-> AidboxHeartbeatPeriod,
                 timeout |-> AidboxTimeout,
                 criteria |-> subscription.topic,
                 filter_criteria |-> criteria.val])

\* r5_build_subscription: the token is a parameter, no filter is embedded
R5BuildSubscription(name, webhook_url, token, subscription) ==
    Ok([status |-> "requested",
        reason |-> name,
        endpoint |-> webhook_url,
        header |-> None,
        parameter |-> <<[name |-> <<"X", "-", "A", "p", "i", "-", "K", "e", "y">>,
                         value |-> token]>>,
        payload_content |-> "id-only",
        max_count |-> 1,
        heartbeat_period |-> AidboxHeartbeatPeriod,
        timeout |-> AidboxTimeout,
        criteria |-> subscription.topic,
        filter_criteria |-> <<>>])

---------------------------------------------------------------------------
(* aidbox_python_sdk_tbs: tbs_ctx_factory (implementation.py 32-84).       *)

Webhook == <<"w", "e", "b", "h", "o", "o", "k">>

AidboxPublicUrl == <<"b">>

\* str(uuid4())
UuidPool == {<<"u", "1">>, <<"u", "2">>}

\* "/".join(["webhook", handler_name])
AidboxPath(subscription) == Join(<<Webhook, HandlerName(subscription.handler)>>, <<"/">>)

\* f"{aidbox_public_url}/{webhook_path}"
AidboxUrl(public_url, subscription) == public_url \o <<"/">> \o AidboxPath(subscription)

AidboxUrlsOf(subs) == {AidboxUrl(AidboxPublicUrl, subs[i]) : i \in 1..Len(subs)}

\* the entries of the search bundle: every Subscription with that endpoint
SearchByUrl(srv, url) == SelectSeq(srv, LAMBDA r : r.resource.endpoint = url)

\* build_subscription(handler_name, webhook_url, token, subscription)
AidboxBuild ==
    IF args.build = "r4b"
    THEN R4BBuildSubscription(HandlerName(CurDef.handler),
                              AidboxUrl(args.aidbox_public_url, CurDef),
                              webhook_token[1], CurDef)
    ELSE R5BuildSubscription(HandlerName(CurDef.handler),
                             AidboxUrl(args.aidbox_public_url, CurDef),
                             webhook_token[1], CurDef)

\* lines 54-67: sdk.operation registers the wrapper, then the subscription is
\* built and fhir_client.create is awaited
RegisterThenAwaitCreate(log) ==
    /\ routes' = Append(routes,
          Route(RoutePath(AidboxPath(CurDef)), webhook_token, CurDef.handler, idx,
                "aidbox"))
    /\ IF AidboxBuild.ok
       THEN /\ pc' = "a_create"
            /\ UNCHANGED error
       ELSE /\ pc' = "a_failed"
            /\ error' = Some(AidboxBuild.err)
    /\ trace' = Append(log,
          Event("route", idx, RoutePath(AidboxPath(CurDef)), None, webhook_token))

\* lines 42-52: top of the loop, up to the await inside cleanup_subscriptions_by_url
AidboxStart ==
    /\ pc = "a_loop"
    /\ idx <= Len(subscriptions)
    /\ \E token \in UuidPool : webhook_token' = Some(token)
    /\ pc' = "a_search"
    /\ UNCHANGED <<args, subscriptions, subscription_defaults, server, nextId, idx,
                   existing_subscription, subscription_prepared,
                   created_subscriptions, routes, trace, run, error, requests, handled, call, result>>

\* lines 74-84: the search returns; the first delete is awaited, or the loop
\* body goes on
AidboxSearch ==
    /\ pc = "a_search"
    /\ LET entries == SearchByUrl(server, AidboxUrl(args.aidbox_public_url, CurDef))
           log == Append(trace,
                     Event("search", idx, AidboxUrl(args.aidbox_public_url, CurDef),
                           entries, None))
       IN  /\ existing_subscription' = entries
           /\ IF entries = <<>>
              THEN RegisterThenAwaitCreate(log)
              ELSE /\ pc' = "a_cleanup"
                   /\ trace' = log
                   /\ UNCHANGED <<routes, error>>
    /\ UNCHANGED <<args, subscriptions, subscription_defaults, server, nextId, idx,
                   webhook_token, subscription_prepared, created_subscriptions,
                   run, requests, handled, call, result>>

\* lines 80-84: one delete of cleanup_subscriptions_by_url returns
AidboxCleanupDelete ==
    /\ pc = "a_cleanup"
    /\ server' = ServerDelete(server, Head(existing_subscription).id)
    /\ existing_subscription' = Tail(existing_subscription)
    /\ LET log == Append(trace,
                     Event("delete", idx, AidboxUrl(args.aidbox_public_url, CurDef),
                           Some(Head(existing_subscription)), None))
       IN  IF Tail(existing_subscription) = <<>>
           THEN RegisterThenAwaitCreate(log)
           ELSE /\ trace' = log
                /\ UNCHANGED <<pc, routes, error>>
    /\ UNCHANGED <<args, subscriptions, subscription_defaults, nextId, idx,
                   webhook_token, subscription_prepared, created_subscriptions,
                   run, requests, handled, call, result>>

\* lines 63-67: fhir_client.create returns, the resource is remembered
AidboxCreate ==
    /\ pc = "a_create"
    /\ server' = ServerCreate(server, nextId, AidboxBuild.val)
    /\ nextId' = nextId + 1
    /\ created_subscriptions' = Append(created_subscriptions, WithId(AidboxBuild.val, nextId))
    /\ trace' = Append(trace,
          Event("create", idx, AidboxUrl(args.aidbox_public_url, CurDef),
                Some(WithId(AidboxBuild.val, nextId)), webhook_token))
    /\ idx' = idx + 1
    /\ pc' = "a_loop"
    /\ UNCHANGED <<args, subscriptions, subscription_defaults, webhook_token,
                   existing_subscription, subscription_prepared, routes, run, error,
                   requests, handled, call, result>>

\* line 68: the loop is over, the generator yields
AidboxYield ==
    /\ pc = "a_loop"
    /\ idx > Len(subscriptions)
    /\ pc' = "a_ready"
    /\ trace' = Append(trace, Event("yield", 0, <<>>, None, None))
    /\ UNCHANGED <<args, subscriptions, subscription_defaults, server, nextId, idx,
                   webhook_token, existing_subscription, subscription_prepared,
                   created_subscriptions, routes, run, error, requests, handled, call, result>>

\* line 70: the host resumes the generator, the teardown loop starts
AidboxTeardown ==
    /\ pc = "a_ready"
    /\ idx' = 1
    /\ pc' = IF created_subscriptions = <<>> THEN "a_closed" ELSE "a_teardown"
    /\ UNCHANGED <<args, subscriptions, subscription_defaults, server, nextId,
                   webhook_token, existing_subscription, subscription_prepared,
                   created_subscriptions, routes, trace, run, error, requests, handled, call, result>>

\* lines 70-71: one delete of the teardown loop returns
AidboxTeardownDelete ==
    /\ pc = "a_teardown"
    /\ server' = ServerDelete(server, created_subscriptions[idx].id)
    /\ trace' = Append(trace,
          Event("delete", idx, created_subscriptions[idx].resource.endpoint,
                Some(created_subscriptions[idx]), None))
    /\ idx' = idx + 1
    /\ pc' = IF idx = Len(created_subscriptions) THEN "a_closed" ELSE "a_teardown"
    /\ UNCHANGED <<args, subscriptions, subscription_defaults, nextId,
                   webhook_token, existing_subscription, subscription_prepared,
                   created_subscriptions, routes, run, error, requests, handled, call, result>>

\* the process starts again with the same arguments
AidboxRestart ==
    /\ pc \in {"a_closed", "a_failed"}
    /\ run < MaxRuns
    /\ run' = run + 1
    /\ pc' = "a_loop"
    /\ idx' = 1
    /\ webhook_token' = None
    /\ existing_subscription' = <<>>
    /\ created_subscriptions' = <<>>
    /\ routes' = <<>>
    /\ trace' = <<>>
    /\ error' = None
    /\ UNCHANGED <<args, subscriptions, subscription_defaults, server, nextId,
                   subscription_prepared, requests, handled, call, result>>

InitAidbox ==
    /\ args \in [aidbox_public_url : {AidboxPublicUrl}, build : {"r4b", "r5"}]
    /\ subscriptions \in SeqsUpTo(DefPool, MaxDefs)
    /\ subscription_defaults = None
    /\ server \in ServersOver(AidboxUrlsOf(subscriptions))
    /\ nextId = Len(server) + 1
    /\ pc = "a_loop"
    /\ idx = 1
    /\ webhook_token = None
    /\ existing_subscription = <<>>
    /\ subscription_prepared = None
    /\ created_subscriptions = <<>>
    /\ routes = <<>>
    /\ trace = <<>>
    /\ run = 1
    /\ error = None
    /\ requests = <<>>
    /\ handled = <<>>
    /\ call = None
    /\ result = None

NextAidbox ==
    \/ AidboxStart
    \/ AidboxSearch
    \/ AidboxCleanupDelete
    \/ AidboxCreate
    \/ AidboxYield
    \/ AidboxTeardown
    \/ AidboxTeardownDelete
    \/ AidboxRestart
    \/ ServerActivate

SpecAidbox == InitAidbox /\ [][NextAidbox]_vars

---------------------------------------------------------------------------
(* aidbox_python_sdk_tbs: _wrapper.wrapped_handler (implementation.py      *)
(* 87-120), one instance per request.                                      *)

\* line 94: the token is always a string here
AidboxUnauthorized(token, header) == header # token

\* lines 98-101: both assertions on the entries of the bundle
AidboxEntriesOk(bundle) == bundle.entry # <<>> /\ Len(bundle.entry) <= 2

\* handler(request["app"], resource)
AidboxInvocation(r, handler, resource) ==
    [req |-> r, handler |-> handler, resource |-> resource, state |-> "running"]

\* url.split("/")[-2], url.split("/")[-1]
AidboxResourceOf(url) ==
    LET url_parts == Split(url, "/")
    IN  IF Len(url_parts) < 2 THEN Raise("IndexError")
        ELSE Ok([resourceType |-> url_parts[Len(url_parts) - 1],
                 id |-> url_parts[Len(url_parts)]])

AidboxStatusBundle == [entry |-> <<Entry(StatusResource(<<>>))>>]

AidboxBundleOne ==
    [entry |-> <<Entry(StatusResource(<<>>)), RequestEntry(RefPatient1)>>]

\* the second entry has no request
AidboxBundleNoRequest ==
    [entry |-> <<Entry(StatusResource(<<>>)), Entry(Patient(<<"1">>))>>]

AidboxBundleThree ==
    [entry |-> <<Entry(StatusResource(<<>>)), RequestEntry(RefPatient1),
                 RequestEntry(RefPatient2)>>]

AidboxBundlePool ==
    {BundleEmpty, AidboxStatusBundle, AidboxBundleOne, AidboxBundleNoRequest,
     AidboxBundleThree}

AidboxHeaderPool == {None} \cup {Some(u) : u \in UuidPool}

\* lines 94-110: the request arrives; 401, a failed assertion, the empty
\* acknowledgement, or the await of the search for the resource
AidboxArrive ==
    /\ pc = "a_ready"
    /\ Len(requests) < MaxReqs
    /\ \E path \in RoutePaths, header \in AidboxHeaderPool, body \in AidboxBundlePool :
          /\ RouteFor(path).wrapper = "aidbox"
          /\ requests' = Append(requests,
                IF AidboxUnauthorized(RouteFor(path).token, header)
                THEN Request(path, header, body, "rejected", <<>>, 0, Some(401))
                ELSE IF ~AidboxEntriesOk(body)
                THEN Request(path, header, body, "failed", <<>>, 0, Some(500))
                ELSE IF Len(body.entry) = 1
                THEN Request(path, header, body, "responded", <<>>, 0, Some(200))
                ELSE IF body.entry[2].request = None
                        \/ ~AidboxResourceOf(body.entry[2].request[1].url).ok
                THEN Request(path, header, body, "failed", <<>>, 0, Some(500))
                ELSE Request(path, header, body, "search", <<>>, 0, None))
    /\ UNCHANGED handled
    /\ ServingUnchanged

\* lines 109-116: the search returns, with the resource or with no entry; the
\* handler is called with the resource
AidboxFetched ==
    /\ \E r \in 1..Len(requests), found \in BOOLEAN :
          /\ requests[r].pc = "search"
          /\ IF found
             THEN /\ requests' = [requests EXCEPT ![r].pc = "a_handler"]
                  /\ handled' = Append(handled,
                        AidboxInvocation(r, RouteFor(requests[r].path).handler,
                            AidboxResourceOf(requests[r].body.entry[2].request[1].url).val))
             ELSE /\ requests' = [requests EXCEPT ![r].pc = "failed",
                                                  ![r].response = Some(500)]
                  /\ UNCHANGED handled
    /\ ServingUnchanged

\* lines 116-118: the handler returns, the loop has no further entry
AidboxHandlerReturn ==
    /\ \E r \in 1..Len(requests) :
          /\ requests[r].pc = "a_handler"
          /\ requests' = [requests EXCEPT ![r].pc = "responded",
                                          ![r].response = Some(200)]
          /\ handled' = [handled EXCEPT ![Running(r)].state = "done"]
    /\ ServingUnchanged

\* the handler raises: the exception leaves wrapped_handler
AidboxHandlerRaise ==
    /\ \E r \in 1..Len(requests) :
          /\ requests[r].pc = "a_handler"
          /\ requests' = [requests EXCEPT ![r].pc = "failed", ![r].response = Some(500)]
          /\ handled' = [handled EXCEPT ![Running(r)].state = "raised"]
    /\ ServingUnchanged

\* tbs_ctx_factory has yielded: the route of the one definition, bound to its
\* uuid
InitAidboxServing ==
    /\ args = [aidbox_public_url |-> AidboxPublicUrl, build |-> "r4b"]
    /\ subscriptions = <<DefExplicit>>
    /\ subscription_defaults = None
    /\ server = <<>>
    /\ nextId = 1
    /\ pc = "a_ready"
    /\ idx = 2
    /\ webhook_token = Some(<<"u", "1">>)
    /\ existing_subscription = <<>>
    /\ subscription_prepared = None
    /\ created_subscriptions = <<>>
    /\ routes = <<Route(RoutePath(AidboxPath(DefExplicit)), Some(<<"u", "1">>),
                        HandlerF, 1, "aidbox")>>
    /\ trace = <<>>
    /\ run = 1
    /\ error = None
    /\ requests = <<>>
    /\ handled = <<>>
    /\ call = None
    /\ result = None

NextAidboxServing ==
    \/ AidboxArrive
    \/ AidboxFetched
    \/ AidboxHandlerReturn
    \/ AidboxHandlerRaise

\* requests against the routes of either setup
SpecWrapper ==
    (InitServing \/ InitAidboxServing) /\ [][NextServing \/ NextAidboxServing]_vars

---------------------------------------------------------------------------
(* C6: every registered route has its definition's subscription already    *)
(* created on the server, and the definitions are reconciled in the order  *)
(* of their declaration.                                                   *)

C6_CreateBeforeRoute ==
    /\ \A k \in EventsOp("route") :
          \E j \in EventsOf("create", trace[k].def) : j < k
    /\ \A j, k \in 1..Len(trace) :
          (j < k /\ trace[j].op # "yield" /\ trace[k].op # "yield"
                 /\ {trace[j].op, trace[k].op} \cap {"delete"} = {}) =>
              trace[j].def <= trace[k].def

---------------------------------------------------------------------------
(* C11: every registered route lies at "/<prefix>/<identifier>", where the *)
(* identifier is the webhook_id of the definition when it has one and      *)
(* "<module>.<name>" of its handler otherwise, which requires subscription *)
(* management; without management a definition that has no webhook_id      *)
(* ends setup with a TypeError before any route is registered for it.      *)

\* the path prefix of the arguments without its surrounding slashes
PrefixCore == <<"p">>

\* setup has gone into the iteration of definition d
Entered(d) == idx > d \/ (idx = d /\ pc # "loop")

C11_WebhookIdentifier ==
    /\ \A r \in 1..Len(routes) :
          LET d == subscriptions[routes[r].def]
          IN  /\ d.webhook_id # None =>
                    routes[r].path = <<"/">> \o PrefixCore \o <<"/">> \o d.webhook_id[1]
              /\ d.webhook_id = None =>
                    /\ args.manage_subscriptions
                    /\ routes[r].path = <<"/">> \o PrefixCore \o <<"/">>
                                            \o d.handler.module \o <<".">> \o d.handler.name
    /\ \A d \in Defs :
          (subscriptions[d].webhook_id = None /\ ~args.manage_subscriptions /\ Entered(d)) =>
              /\ pc = "failed"
              /\ idx = d
              /\ error = Some("TypeError")
              /\ \A r \in 1..Len(routes) : routes[r].def # d

\* without management: the route of a definition with a webhook_id is there,
\* and setup has failed on the next definition, which has none
C11_Witness ==
    /\ ~args.manage_subscriptions
    /\ subscriptions = <<DefExplicit, DefDerived>>
    /\ pc = "failed"
    /\ idx = 2
    /\ error = Some("TypeError")
    /\ Len(routes) = 1
    /\ routes[1].path = <<"/", "p", "/", "w">>

---------------------------------------------------------------------------
(* C12: the argument handle_delivery_errors is inert.  The flag is read at *)
(* line 150 only, in the step that opens an iteration; every other step is *)
(* the same for both values.  The flag is inert when that step, taken from *)
(* any reachable state, is also the step of the run that has the other     *)
(* value of the flag: same remote call awaited, same route and token, same *)
(* error.                                                                  *)

---------------------------------------------------------------------------
(* C13: setup only searches, creates and deletes.  No step of setup        *)
(* changes a resource that stays on the server (only the server itself     *)
(* moves a subscription from `requested` to `active`); a subscription that *)
(* a search of this run returned as `active` is still on the server as it  *)
(* was returned; and without management nothing is created or deleted.     *)

\* the resources that are on the server before and after the step are the same
ResourcesKept ==
    \A i \in 1..Len(server), j \in 1..Len(server') :
        server[i].id = server'[j].id => server[i] = server'[j]

C13_NeverUpdatesInPlace ==
    /\ [][ServerActivate \/ ResourcesKept]_vars
    /\ [](/\ \A k \in 1..Len(trace) :
                trace[k].op \in {"search", "create", "delete", "route", "yield"}
          /\ \A k \in EventsOp("search") :
                (args.manage_subscriptions /\ trace[k].sub # None
                    /\ trace[k].sub[1].resource.status = "active") =>
                   \E i \in 1..Len(server) : server[i] = trace[k].sub[1]
          /\ ~args.manage_subscriptions =>
                (EventsOp("create") = {} /\ EventsOp("delete") = {}))

\* a managed setup that found one subscription active and left it, and deleted
\* and replaced another
C13_Witness ==
    /\ args.manage_subscriptions
    /\ pc = "ready"
    /\ \E d \in Defs : FoundActive(d)
    /\ EventsOp("delete") # {}
    /\ EventsOp("create") # {}
    /\ Len(server) = 2

---------------------------------------------------------------------------
(* The functions of the package applied on their own: `call` holds the     *)
(* function and its argument, `result` what the applications returned.     *)

MaxEvents == 2
MaxContext == 2

Call(fn, arg) == Some([fn |-> fn, arg |-> arg])

\* a resource with the key of Patient("1") and another content
PatientOneAgain == [Patient(<<"1">>) EXCEPT !.subject = Some(<<"h", "/", "P", "/", "2">>)]

\* the first notification event of a status resource: with or without a focus,
\* the focus relative or a versioned URL, context references that repeat or
\* not, an event number that is a numeral or not
FirstEventPool ==
    {[NotificationEvent(focus, context, "1") EXCEPT !.eventNumber = number] :
        focus \in {None, Some(RefPatient1),
                   Some(<<"h", "/">> \o RefPatient2 \o <<"/">> \o History \o <<"/", "3">>)},
        context \in SeqsUpTo({Some(RefPatient1), Some(RefPatient2)}, MaxContext),
        number \in {<<"1", "0">>, <<"x">>}}

\* the notification events after the first
LaterEventPool ==
    {NotificationEvent(None, <<>>, "2"), NotificationEvent(Some(RefPatient2), <<>>, "2")}

EventLists ==
    {<<>>} \cup {<<e>> \o rest : e \in FirstEventPool,
                                  rest \in SeqsUpTo(LaterEventPool, MaxEvents - 1)}

\* the entries after the first: inlined resources
IncludedPool ==
    {<<>>,
     <<Entry(Patient(<<"1">>))>>,
     <<Entry(Patient(<<"2">>)), Entry(Patient(<<"1">>))>>,
     <<Entry(Patient(<<"1">>)), RequestEntry(RefPatient2)>>,
     <<Entry(Patient(<<"1">>)), Entry(PatientOneAgain)>>}

\* bundles a server may send to the webhook or return from $events
DecodePool ==
    {BundleEmpty}
    \cup {[entry |-> <<first>> \o included] :
            first \in {RequestEntry(RefPatient1), Entry(Patient(<<"1">>))},
            included \in {<<>>, <<Entry(StatusResource(<<>>))>>}}
    \cup {[entry |-> <<Entry(StatusResource(events))>> \o included] :
            events \in EventLists, included \in IncludedPool}

PureUnchanged ==
    UNCHANGED <<args, subscriptions, subscription_defaults, server, nextId, pc, idx,
                webhook_token, existing_subscription, subscription_prepared,
                created_subscriptions, routes, trace, run, error, requests, handled,
                call>>

\* R4BClient.extract_subscription_events_from_bundle(bundle_data)
ExtractEventsCall ==
    /\ call # None
    /\ call[1].fn = "extract_subscription_events_from_bundle"
    /\ result = <<>>
    /\ result' = <<ExtractSubscriptionEventsFromBundle(call[1].arg)>>
    /\ PureUnchanged

MaxSegments == 5
MaxApplications == 2

\* the segments of the reference strings: empty, a scheme, a type, an id and
\* the history marker
SegmentPool == {<<>>, <<"h", ":">>, <<"P">>, <<"1">>, History}

\* reference strings: segments joined by "/"
ReferencePool ==
    {Join(parts, <<"/">>) : parts \in SeqsUpTo(SegmentPool, MaxSegments) \ {<<>>}}

\* extract_relative_reference(reference), then again on what it returned
ExtractRelativeReferenceCall ==
    /\ call # None
    /\ call[1].fn = "extract_relative_reference"
    /\ Len(result) < MaxApplications
    /\ result' = Append(result,
                    Ok(ExtractRelativeReference(IF result = <<>> THEN call[1].arg.reference
                                                ELSE result[Len(result)].val)))
    /\ PureUnchanged

MaxFilters == 3

Filter(resource_type, filter_parameter, modifier, comparator, value) ==
    [resource_type |-> resource_type, filter_parameter |-> filter_parameter,
     value |-> value, comparator |-> comparator, modifier |-> modifier]

\* filters over two resource types and over the empty string as resource
\* type; parameter s twice with different values; the key s:m once made of
\* parameter s and modifier m and once written as the parameter itself
FilterPool ==
    {FilterPatient,
     Filter(<<"P">>, <<"s">>, None, None, <<"b">>),
     Filter(<<"P">>, <<"s">>, Some(<<"m">>), None, <<"a">>),
     Filter(<<"P">>, <<"s", ":", "m">>, None, None, <<"b">>),
     Filter(<<"P">>, <<"t">>, None, Some(<<"g">>), <<"1">>),
     FilterObservation,
     Filter(<<>>, <<"s">>, None, None, <<"a">>)}

\* _build_filter_criteria(subscription)
BuildFilterCriteriaCall ==
    /\ call # None
    /\ call[1].fn = "_build_filter_criteria"
    /\ result = <<>>
    /\ result' = <<BuildFilterCriteria(call[1].arg)>>
    /\ PureUnchanged

\* tokens: none, empty, plain, with a ":" inside, with a leading blank
PureTokenPool == TokenPool \cup {Some(<<"k", ":", "1">>), Some(<<" ", "k">>)}

\* R4BClient.build_subscription(webhook_id, webhook_url, webhook_token, subscription)
BuildSubscriptionCall ==
    /\ call # None
    /\ call[1].fn = "build_subscription"
    /\ result = <<>>
    /\ result' = <<BuildSubscription(call[1].arg.webhook_id, call[1].arg.webhook_url,
                                     call[1].arg.webhook_token, call[1].arg.subscription)>>
    /\ PureUnchanged

\* R4BClient.extract_subscription_info on the subscription that was built
ExtractSubscriptionInfoCall ==
    /\ call # None
    /\ call[1].fn = "build_subscription"
    /\ Len(result) = 1
    /\ result[1].ok
    /\ result' = Append(result, ExtractSubscriptionInfo(result[1].val))
    /\ PureUnchanged

PureInputs ==
    {Call("extract_subscription_events_from_bundle", b) : b \in DecodePool}
    \cup {Call("build_subscription",
               [webhook_id |-> ResolveWebhookId(d, TRUE).val, webhook_url |-> UrlOf(d),
                webhook_token |-> t, subscription |-> Prepare(d, DefaultsOrEmpty(None))]) :
            d \in DefPool, t \in PureTokenPool}
    \cup {Call("_build_filter_criteria", [filter_by |-> fs]) :
            fs \in SeqsUpTo(FilterPool, MaxFilters)}
    \cup {Call("extract_relative_reference", [reference |-> r]) : r \in ReferencePool}

\* no setup is running; one function is about to be applied to one argument
InitPure ==
    /\ args = [webhook_path_prefix |-> PathPrefix, webhook_token |-> None,
               manage_subscriptions |-> FALSE, handle_delivery_errors |-> FALSE,
               app_url |-> None, get_fhir_client |-> FALSE]
    /\ subscriptions = <<>>
    /\ subscription_defaults = None
    /\ server = <<>>
    /\ nextId = 1
    /\ pc = "idle"
    /\ idx = 1
    /\ webhook_token = None
    /\ existing_subscription = None
    /\ subscription_prepared = None
    /\ created_subscriptions = <<>>
    /\ routes = <<>>
    /\ trace = <<>>
    /\ run = 1
    /\ error = None
    /\ requests = <<>>
    /\ handled = <<>>
    /\ call \in PureInputs
    /\ result = <<>>

NextPure ==
    \/ ExtractEventsCall
    \/ BuildSubscriptionCall
    \/ ExtractSubscriptionInfoCall
    \/ BuildFilterCriteriaCall
    \/ ExtractRelativeReferenceCall

SpecPure == InitPure /\ [][NextPure]_vars

\* the call is one of this function and has returned or raised
Returned(fn) == call # None /\ call[1].fn = fn /\ result # <<>>

---------------------------------------------------------------------------
(* C14: decoding raises, and returns no event list, for a bundle that has  *)
(* no entry, whose first entry carries no resource, or whose first entry   *)
(* carries a resource that is not a SubscriptionStatus.                    *)

C14_NoLeadingStatusFails ==
    Returned("extract_subscription_events_from_bundle") =>
        LET bundle == call[1].arg
        IN  (\/ bundle.entry = <<>>
             \/ bundle.entry[1].resource = None
             \/ bundle.entry[1].resource[1].resourceType # SubscriptionStatusType) =>
                ~result[1].ok

\* decoding has raised on a bundle whose status resource is the second entry,
\* after an inlined Patient
C14_Witness ==
    /\ Returned("extract_subscription_events_from_bundle")
    /\ call[1].arg = [entry |-> <<Entry(Patient(<<"1">>)), Entry(StatusResource(<<>>))>>]
    /\ result = <<Raise("AssertionError")>>

---------------------------------------------------------------------------
(* C15: for a bundle with exactly one focus-bearing event, decoding yields *)
(* exactly one SubscriptionEvent; its reference is the normalised focus    *)
(* reference, its included_resources are the inlined resources matched by  *)
(* the context references and then by the focus reference, and their       *)
(* number is the number of inlined entries that match.                     *)

\* the bundle leads with a status resource
LeadsWithStatus(bundle) ==
    /\ bundle.entry # <<>>
    /\ bundle.entry[1].resource # None
    /\ bundle.entry[1].resource[1].resourceType = SubscriptionStatusType

\* the focus-bearing notification events of a bundle that leads with a status
FocusEvents(bundle) ==
    SelectSeq(bundle.entry[1].resource[1].notificationEvent, LAMBDA e : Truthy(e.focus))

\* the references of an event as a set, normalised
ReferenceSet(e) ==
    {ExtractRelativeReference(e.focus[1])}
    \cup {ExtractRelativeReference(e.additionalContext[i][1]) :
            i \in {j \in 1..Len(e.additionalContext) : Truthy(e.additionalContext[j])}}

\* the entries after the first whose resource one of the references names
MatchingEntries(bundle, e) ==
    {i \in 2..Len(bundle.entry) :
        /\ bundle.entry[i].resource # None
        /\ ResourceKey(bundle.entry[i].resource[1]) \in ReferenceSet(e)}

\* the bundle of the call has exactly one focus-bearing event, numbered by a numeral
OneFocusEventDecoded ==
    /\ Returned("extract_subscription_events_from_bundle")
    /\ LeadsWithStatus(call[1].arg)
    /\ Len(FocusEvents(call[1].arg)) = 1
    /\ IntOf(FocusEvents(call[1].arg)[1].eventNumber).ok

C15_OneEventIncluded ==
    OneFocusEventDecoded =>
        LET bundle == call[1].arg
            e == FocusEvents(bundle)[1]
        IN  /\ result[1].ok
            /\ Len(result[1].val) = 1
            /\ result[1].val[1].reference = ExtractRelativeReference(e.focus[1])
            /\ \A i \in 1..Len(result[1].val[1].included_resources) :
                   ResourceKey(result[1].val[1].included_resources[i]) \in ReferenceSet(e)
            /\ Len(result[1].val[1].included_resources)
                   = Cardinality(MatchingEntries(bundle, e))

---------------------------------------------------------------------------
(* C16: no inlined resource occurs more than once in the                   *)
(* included_resources of a decoded SubscriptionEvent.                      *)

C16_NoDuplicates ==
    (Returned("extract_subscription_events_from_bundle") /\ result[1].ok) =>
        \A k \in 1..Len(result[1].val) :
            LET included == result[1].val[k].included_resources
            IN  \A i, j \in 1..Len(included) : included[i] = included[j] => i = j

---------------------------------------------------------------------------
(* C17: reference normalisation is idempotent on every reference except    *)
(* those of the shape .../_history/x/_history/n; it returns Type/id and a  *)
(* reference without "/" unchanged and maps .../Type/id/_history/n to      *)
(* Type/id.                                                                *)

\* the reference of the call, split at "/"
ReferenceParts == Split(call[1].arg.reference, "/")

\* "_history" is both the next-to-last segment and the one two before it
DoubleHistory(parts) ==
    /\ Len(parts) >= 4
    /\ parts[Len(parts) - 1] = History
    /\ parts[Len(parts) - 3] = History

\* normalisation has been applied n times or more
Normalized(n) == Returned("extract_relative_reference") /\ Len(result) >= n

C17_IdempotentOnReferences ==
    /\ (Normalized(2) /\ ~DoubleHistory(ReferenceParts)) => result[2] = result[1]
    /\ Normalized(1) =>
          LET parts == ReferenceParts
              n == Len(parts)
          IN  /\ n = 1 => result[1] = Ok(call[1].arg.reference)
              /\ (n = 2 /\ parts[1] # History) => result[1] = Ok(call[1].arg.reference)
              /\ (n >= 4 /\ parts[n - 1] = History) =>
                     result[1] = Ok(parts[n - 3] \o <<"/">> \o parts[n - 2])

\* h:/P/1/_history/1 has become P/1 and stayed P/1
C17_Witness ==
    /\ Normalized(2)
    /\ call[1].arg.reference = <<"h", ":", "/", "P", "/", "1", "/">> \o History \o <<"/", "1">>
    /\ result = <<Ok(RefPatient1), Ok(RefPatient1)>>

\* C17 as stated: normalisation is idempotent on every reference string
C17_Idempotent ==
    Normalized(2) => result[2] = result[1]

---------------------------------------------------------------------------
(* C18: filter encoding raises, and returns no criteria string, when the   *)
(* filter list is empty or names more than one distinct resource type.     *)

\* the filter list of the call
FilterBy == call[1].arg.filter_by

\* the resource types the filter list names
ResourceTypes == {FilterBy[i].resource_type : i \in 1..Len(FilterBy)}

C18_EmptyOrMixedFails ==
    Returned("_build_filter_criteria") =>
        ((FilterBy = <<>> \/ Cardinality(ResourceTypes) > 1) => ~result[1].ok)

---------------------------------------------------------------------------
(* C19: for a non-empty filter list over one resource type, the criteria   *)
(* string is the resource type, "?", and one param[:modifier]=             *)
(* [comparator]value pair per distinct key, in the order in which the keys *)
(* first occur, each key with the value of its last occurrence.            *)

\* <param>[:<modifier>] of the i-th filter of the call
KeyAt(i) ==
    FilterBy[i].filter_parameter
    \o (IF FilterBy[i].modifier = None THEN <<>> ELSE <<":">> \o FilterBy[i].modifier[1])

\* [<comparator>]<value> of the i-th filter of the call
ValueAt(i) ==
    (IF FilterBy[i].comparator = None THEN <<>> ELSE FilterBy[i].comparator[1])
    \o FilterBy[i].value

\* the positions at which a key occurs for the first time, in order
FirstOccurrences ==
    SelectSeq([i \in 1..Len(FilterBy) |-> i],
              LAMBDA i : \A j \in 1..(i - 1) : KeyAt(j) # KeyAt(i))

\* the position at which the key of position i occurs for the last time
LastOccurrence(i) ==
    CHOOSE j \in 1..Len(FilterBy) :
        /\ KeyAt(j) = KeyAt(i)
        /\ \A k \in (j + 1)..Len(FilterBy) : KeyAt(k) # KeyAt(i)

ExpectedCriteria ==
    FilterBy[1].resource_type \o <<"?">>
    \o Join([n \in 1..Len(FirstOccurrences) |->
                KeyAt(FirstOccurrences[n]) \o <<"=">>
                \o ValueAt(LastOccurrence(FirstOccurrences[n]))], <<"&">>)

C19_OrderedLastWins ==
    (/\ Returned("_build_filter_criteria")
     /\ FilterBy # <<>>
     /\ Cardinality(ResourceTypes) = 1) => result[1] = Ok(ExpectedCriteria)

---------------------------------------------------------------------------
(* C20: under managed setup every subscription that setup creates carries  *)
(* the channel header of the configured webhook_token, and the route of    *)
(* its definition is bound to the configured webhook_token, whatever       *)
(* tokens the active subscriptions of earlier definitions carried.         *)

C20_CreatedWithConfiguredToken ==
    args.manage_subscriptions =>
        \A k \in EventsOp("create") :
            /\ trace[k].sub[1].resource.header = ChannelHeader(args.webhook_token)
            /\ \A r \in 1..Len(routes) :
                   routes[r].def = trace[k].def => routes[r].token = args.webhook_token

---------------------------------------------------------------------------
(* C21: once managed setup is through, the token bound to the route of     *)
(* every definition is the token that extract_subscription_info reads from *)
(* the subscription the server stores for the webhook URL of that          *)
(* definition: both absent, or both the same string.                       *)

\* the subscription the server stores for the URL of definition d
StoredFor(d) == FetchSubscription(server, UrlOf(subscriptions[d]))

C21_RouteTokenIsStoredToken ==
    (args.manage_subscriptions /\ pc = "ready") =>
        \A r \in 1..Len(routes) :
            /\ StoredFor(routes[r].def) # None
            /\ ExtractSubscriptionInfo(StoredFor(routes[r].def)[1].resource)
                  = Ok([status |-> StoredFor(routes[r].def)[1].resource.status,
                        token |-> routes[r].token])

---------------------------------------------------------------------------
(* C22: extract_subscription_info of the subscription that                 *)
(* build_subscription built with token t returns status `requested` and    *)
(* token t, none when no token was given.                                  *)

C22_RoundTrip ==
    (Returned("build_subscription") /\ Len(result) = 2) =>
        result[2] = Ok([status |-> "requested", token |-> call[1].arg.webhook_token])

---------------------------------------------------------------------------
(* C23: a server that holds at most one subscription per webhook URL       *)
(* before setup never holds two for one URL during managed setup, and      *)
(* holds exactly one for the URL of every definition once setup is         *)
(* through, also when two definitions share a webhook identifier.          *)

\* the subscriptions the server stores for a webhook URL
StoredAt(url) == {i \in 1..Len(server) : server[i].resource.endpoint = url}

\* setup is the managed one of fhir_tbs, or the one of aidbox_python_sdk_tbs
ManagedLifecycle ==
    \/ pc \in {"a_loop", "a_search", "a_cleanup", "a_create", "a_ready"}
    \/ /\ pc \in {"loop", "fetch", "delete", "create", "ready"}
       /\ args.manage_subscriptions

\* the webhook URL of definition d in the lifecycle that is running
LifecycleUrlOf(d) ==
    IF pc = "a_ready" THEN AidboxUrl(args.aidbox_public_url, subscriptions[d])
    ELSE UrlOf(subscriptions[d])

C23_OnePerUrl ==
    ManagedLifecycle =>
        /\ \A i \in 1..Len(server) : Cardinality(StoredAt(server[i].resource.endpoint)) = 1
        /\ pc \in {"ready", "a_ready"} =>
              \A d \in Defs : Cardinality(StoredAt(LifecycleUrlOf(d))) = 1

\* the two setups that manage subscriptions side by side: every run is one of
\* fhir_tbs with manage_subscriptions (and without the delivery-error flag,
\* which changes nothing then), or one of aidbox_python_sdk_tbs with the R4B
\* builder
InitSetup ==
    \/ Init /\ args.manage_subscriptions /\ ~args.handle_delivery_errors
    \/ InitAidbox /\ args.build = "r4b"

SpecSetup == InitSetup /\ [][Next \/ NextAidbox]_vars

\* managed setup is through with two definitions that share a webhook URL:
\* both were created, the second after the first was deleted, one is stored
C23_Witness ==
    /\ pc = "ready"
    /\ args.manage_subscriptions
    /\ Len(subscriptions) = 2
    /\ UrlOf(subscriptions[1]) = UrlOf(subscriptions[2])
    /\ EventsOf("create", 1) # {}
    /\ EventsOf("delete", 2) # {}
    /\ EventsOf("create", 2) # {}
    /\ Cardinality(StoredAt(UrlOf(subscriptions[1]))) = 1

---------------------------------------------------------------------------
(* C24: requests to different webhook paths are independent. A request is  *)
(* authenticated against the token of the route of its own path and        *)
(* dispatched to the handler of that route; a step of one request leaves   *)
(* every other request as it was; and a registered route keeps its token   *)
(* and handler, also while later definitions are being reconciled.         *)

\* managed setup of two definitions with different webhook paths, then
\* requests. The server holds a subscription in status `error` for the first
\* definition and an active one without a token for the second.
InitConcurrent ==
    /\ args = [webhook_path_prefix |-> PathPrefix, webhook_token |-> Some(<<"k">>),
               manage_subscriptions |-> TRUE, handle_delivery_errors |-> FALSE,
               app_url |-> Some(AppUrl), get_fhir_client |-> TRUE]
    /\ subscriptions = <<DefExplicit, DefDerived>>
    /\ subscription_defaults = None
    /\ server = <<WithId(Remote("error", Some(<<XApiKeyHeader(<<"s">>)>>),
                                UrlOf(DefExplicit)), 1),
                   WithId(Remote("active", None, UrlOf(DefDerived)), 2)>>
    /\ nextId = 3
    /\ pc = "loop"
    /\ idx = 1
    /\ webhook_token = args.webhook_token
    /\ existing_subscription = None
    /\ subscription_prepared = None
    /\ created_subscriptions = <<>>
    /\ routes = <<>>
    /\ trace = <<>>
    /\ run = 1
    /\ error = None
    /\ requests = <<>>
    /\ handled = <<>>
    /\ call = None
    /\ result = None

NextConcurrent ==
    \/ StartIteration
    \/ Fetch
    \/ Delete
    \/ Create
    \/ Yield
    \/ NextServing

SpecConcurrent == InitConcurrent /\ [][NextConcurrent]_vars

\* the routes registered for the path of request r
RoutesOf(r) == {i \in 1..Len(routes) : routes[i].path = requests[r].path}

\* every route that exists stays as it is
RoutesKept ==
    /\ Len(routes') >= Len(routes)
    /\ \A i \in 1..Len(routes) : routes'[i] = routes[i]

\* at most one request takes a step or arrives, the others stay as they are
OneRequestMoves ==
    /\ Len(requests') >= Len(requests)
    /\ \E r \in 1..Len(requests') :
          /\ \A q \in Reqs \ {r} : requests'[q] = requests[q]
          /\ \A h \in 1..Len(handled) : handled[h].req # r => handled'[h] = handled[h]

C24_PathsIndependent ==
    /\ [](\A r \in Reqs :
            /\ Cardinality(RoutesOf(r)) = 1
            /\ \A i \in RoutesOf(r) :
                  /\ requests[r].pc = "rejected" <=>
                        (routes[i].token # None /\ requests[r].header # routes[i].token)
                  /\ \A h \in InvocationsOf(r) : handled[h].handler = routes[i].handler)
    /\ [][RoutesKept /\ (requests' # requests => OneRequestMoves)]_vars

\* two requests to different paths, let through by different tokens, have
\* their handlers running at the same time
C24_Witness ==
    /\ Len(requests) = 2
    /\ requests[1].path # requests[2].path
    /\ requests[1].pc = "handler" /\ requests[2].pc = "handler"
    /\ \A r \in Reqs : \A i \in RoutesOf(r) : requests[r].header = routes[i].token
    /\ \E i, j \in 1..Len(routes) : routes[i].token # routes[j].token
    /\ \E h, g \in 1..Len(handled) :
          /\ handled[h].state = "running" /\ handled[g].state = "running"
          /\ handled[h].handler # handled[g].handler

---------------------------------------------------------------------------
(* C25: when the handler raises while a request is processed, the request  *)
(* ends in failure without a success response and the handler is not       *)
(* invoked again for it.                                                   *)

\* the invocations of request r that raised
RaisedOf(r) == {h \in InvocationsOf(r) : handled[h].state = "raised"}

C25_HandlerErrorPropagates ==
    \A r \in Reqs :
        RaisedOf(r) # {} =>
            /\ requests[r].pc = "failed"
            /\ requests[r].response # Some(200)
            /\ \A h \in RaisedOf(r) : \A g \in InvocationsOf(r) : g <= h
            /\ Cardinality(RaisedOf(r)) = 1

\* the handler of a fhir_tbs route raised on the one event of the request
\* while another request was answered
C25_Witness ==
    /\ Len(requests) = 2
    /\ IsFhir(1)
    /\ RaisedOf(1) # {}
    /\ requests[1].pc = "failed"
    /\ requests[2].pc = "responded"

---------------------------------------------------------------------------
(* C26: decoding emits one SubscriptionEvent for every notification event  *)
(* that carries a focus reference, in the order of the events, and skips   *)
(* the events without one without raising; when the event number of a      *)
(* focus-bearing event is not a numeral, decoding raises ValueError        *)
(* instead.                                                                *)

\* a bundle that leads with a status resource has been decoded
StatusDecoded ==
    Returned("extract_subscription_events_from_bundle") /\ LeadsWithStatus(call[1].arg)

\* every focus-bearing event of the bundle of the call is numbered by a numeral
FocusEventsNumbered ==
    \A k \in 1..Len(FocusEvents(call[1].arg)) :
        IntOf(FocusEvents(call[1].arg)[k].eventNumber).ok

\* one event per focus-bearing notification event, in their order
OnePerFocusEvent ==
    /\ result[1].ok
    /\ Len(result[1].val) = Len(FocusEvents(call[1].arg))
    /\ \A k \in 1..Len(result[1].val) :
          /\ result[1].val[k].reference
                = ExtractRelativeReference(FocusEvents(call[1].arg)[k].focus[1])
          /\ result[1].val[k].timestamp = FocusEvents(call[1].arg)[k].timestamp

---------------------------------------------------------------------------
(* C27: under managed setup a definition whose filter list is empty or     *)
(* spans more than one resource type stops setup and leaves the server as  *)
(* it was for that definition: nothing is deleted or created for it, no    *)
(* route is registered for it, and setup does not get past it.             *)

InvalidFilters(d) == ~BuildFilterCriteria(subscriptions[d]).ok

C27_InvalidFiltersChangeNothing ==
    args.manage_subscriptions =>
        \A d \in Defs :
            InvalidFilters(d) =>
                /\ EventsOf("delete", d) = {}
                /\ EventsOf("create", d) = {}
                /\ EventsOf("route", d) = {}
                /\ idx <= d

====
